---------------------------- MODULE Spec2Model ----------------------------
(***************************************************************************)
(* A model of the configuration binder of package config: the Builder     *)
(* (flat config map, delimiters, optional value pre-processor), its merge *)
(* operations (From, FromEnv, mergeConfig over stringsToMap) and the      *)
(* struct population engine (To, populateStructRecursively, getKey,       *)
(* stringToSlice, convertAndSetSlice, convertAndSetValue).                *)
(*                                                                         *)
(* Go strings are TLA+ strings; a character is a string of length one.    *)
(***************************************************************************)
EXTENDS Integers, Sequences, FiniteSets, TLC

VARIABLES
    configMap,          \* Builder.configMap: key -> value
    structDelim,        \* Builder.structDelim
    sliceDelim,         \* Builder.sliceDelim
    valuePreProcessor,  \* Builder.valuePreProcessor: "nil" or "aws"
    target,             \* the caller's struct handed to To: [type, val]
    toCalls,            \* number of To calls made on the current target
    lastCall,           \* what the last call was, with its input and outcome
    lastEntry,          \* history: key -> the last input entry written for it
    settable,           \* a settable on its own, handed to convertAndSetValue
    call                \* a function called on its own: its input and its result

vars == <<configMap, structDelim, sliceDelim, valuePreProcessor,
          target, toCalls, lastCall, lastEntry, settable, call>>

-----------------------------------------------------------------------------
(* Package strings, as far as the program uses it (ASCII).                 *)

UpperLetters == "ABCDEFGHIJKLMNOPQRSTUVWXYZ"
LowerLetters == "abcdefghijklmnopqrstuvwxyz"

CharAt(s, i) == SubSeq(s, i, i)

\* the lower-case letter of each upper-case letter
LowerOf ==
    [c \in {CharAt(UpperLetters, i) : i \in 1..Len(UpperLetters)} |->
        CharAt(LowerLetters,
               CHOOSE i \in 1..Len(UpperLetters) : CharAt(UpperLetters, i) = c)]

ToLowerChar(c) == IF c \in DOMAIN LowerOf THEN LowerOf[c] ELSE c

RECURSIVE ToLower(_)
ToLower(s) ==
    IF s = "" THEN "" ELSE ToLowerChar(Head(s)) \o ToLower(Tail(s))

HasPrefix(s, p) == Len(s) >= Len(p) /\ SubSeq(s, 1, Len(p)) = p

\* the least element of a non-empty set of numbers, 0 for the empty set
LeastOr0(hits) ==
    IF hits = {} THEN 0 ELSE CHOOSE i \in hits : \A j \in hits : i <= j

\* the least index at which sub occurs in s, 0 when it does not occur
Index(s, sub) ==
    LeastOr0({i \in 1..(Len(s) - Len(sub) + 1) :
                 SubSeq(s, i, i + Len(sub) - 1) = sub})

Contains(s, sub) == Index(s, sub) > 0

\* s cut at index i, where sep occurs (i = 0: sep does not occur)
CutAt(s, sep, i) ==
    IF i = 0 THEN <<s>>
    ELSE <<SubSeq(s, 1, i - 1), SubSeq(s, i + Len(sep), Len(s))>>

\* strings.SplitN(s, sep, 2)
SplitN2(s, sep) == CutAt(s, sep, Index(s, sep))

\* strings.Split(s, sep), sep non-empty
RECURSIVE Split(_, _)
SplitRest(cut, sep) ==
    IF Len(cut) = 1 THEN cut ELSE <<cut[1]>> \o Split(cut[2], sep)

Split(s, sep) == SplitRest(SplitN2(s, sep), sep)

WhiteSpace == {" ", "\t", "\n", "\r"}

RECURSIVE TrimLeft(_)
TrimLeft(s) ==
    IF s # "" /\ Head(s) \in WhiteSpace THEN TrimLeft(Tail(s)) ELSE s

RECURSIVE TrimRight(_)
TrimRight(s) ==
    IF s # "" /\ CharAt(s, Len(s)) \in WhiteSpace
    THEN TrimRight(SubSeq(s, 1, Len(s) - 1)) ELSE s

TrimSpace(s) == TrimRight(TrimLeft(s))

-----------------------------------------------------------------------------
(* Go maps of strings.                                                     *)

EmptyMap == [k \in {} |-> ""]

\* m[k] = v
MapSet(m, k, v) == [x \in DOMAIN m \cup {k} |-> IF x = k THEN v ELSE m[x]]

\* a lookup that answers an absent key with the key itself
MapGetOrKey(m, k) == IF k \in DOMAIN m THEN m[k] ELSE k

\* m[k] of a Go map: the zero value when the key is absent
MapGet(m, k) == IF k \in DOMAIN m THEN m[k] ELSE ""

-----------------------------------------------------------------------------
(* The flat-map normalizer.                                                *)

\* an entry for every line with a value, whatever stands before its "="
stringsToMapSplitAnyKey(m, split) ==
    IF split[2] # "" THEN MapSet(m, ToLower(split[1]), split[2]) ELSE m

\* the line split in two at its first "=": the entry it adds to m
stringsToMapSplit(m, split) ==
    IF ToLower(split[1]) # "" /\ split[2] # ""
    THEN MapSet(m, ToLower(split[1]), split[2])
    ELSE m

\* the line split in two at its last "="
stringsToMapLineLastEq(m, s) ==
    IF ~Contains(s, "=") THEN m
    ELSE LET i == CHOOSE i \in 1..Len(s) :
                      /\ CharAt(s, i) = "="
                      /\ \A j \in (i + 1)..Len(s) : CharAt(s, j) # "="
         IN  stringsToMapSplit(m, <<SubSeq(s, 1, i - 1), SubSeq(s, i + 1, Len(s))>>)

\* one iteration of the loop of stringsToMap: the map after line s
stringsToMapLine(m, s) ==
    IF ~Contains(s, "=") THEN m ELSE stringsToMapSplit(m, SplitN2(s, "="))

RECURSIVE stringsToMapFrom(_, _)
stringsToMapFrom(m, ss) ==
    IF ss = <<>> THEN m
    ELSE stringsToMapFrom(stringsToMapLine(m, Head(ss)), Tail(ss))

stringsToMap(ss) == stringsToMapFrom(EmptyMap, ss)

-----------------------------------------------------------------------------
(* The reference value pre-processor (AWS Secrets Manager and Parameter    *)
(* Store) against stub backends.  A call that panics returns ok = FALSE.   *)

\* the stub of SecretsManager.GetSecretValue: secret id -> SecretString;
\* an id outside the domain is answered with an error
SecretStrings ==
    [n \in {"my_secret", "plain", "blank", "mixed", "foo_bar", "small_foo_bar"} |->
        CASE n = "my_secret" -> "{\"user\":\"alice\",\"pass\":\"x\"}"
          [] n = "plain" -> "plainvalue"
          [] n = "blank" -> "{\"user\":\"\"}"
          [] n = "mixed" -> "{\"user\":1}"
          [] OTHER -> "baz"]

\* the stub of ParameterStoreManager.GetParameter: name -> Parameter.Value
ParameterValues ==
    [n \in {"p", "foo_bar", "ssmall_foo_bar"} |-> IF n = "p" THEN "pv" ELSE "baz"]

secretsManagerStringRe == "sm://"
parameterStoreStringRe == "ssm://"

\* a match of the literal anywhere in s, its first occurrence stripped
checkPrefixAndStripAnywhere(re, s) ==
    IF Contains(s, re)
    THEN [s |-> SubSeq(s, 1, Index(s, re) - 1)
                    \o SubSeq(s, Index(s, re) + Len(re), Len(s)),
          ok |-> TRUE]
    ELSE [s |-> s, ok |-> FALSE]

\* re is the literal that follows the anchor ^ of the compiled pattern
checkPrefixAndStrip(re, s) ==
    IF HasPrefix(s, re)
    THEN [s |-> SubSeq(s, Len(re) + 1, Len(s)), ok |-> TRUE]
    ELSE [s |-> s, ok |-> FALSE]

\* res is strings.Split(s, "#")
postfixOf(res) ==
    IF Len(res) > 1 THEN <<res[1], res[2]>> ELSE <<res[1], "">>

checkPostfixAndStrip(s) == postfixOf(Split(s, "#"))

loadStringValueFromSecretsManager(name) ==
    IF name \in DOMAIN SecretStrings
    THEN [ok |-> TRUE, val |-> SecretStrings[name]]
    ELSE [ok |-> FALSE, val |-> ""]

loadStringValueFromParameterStore(name) ==
    IF name \in DOMAIN ParameterValues
    THEN [ok |-> TRUE, val |-> ParameterValues[name]]
    ELSE [ok |-> FALSE, val |-> ""]

\* a JSON string literal without escapes: "..." 
IsJSONString(s) ==
    /\ Len(s) >= 2
    /\ Head(s) = "\"" /\ CharAt(s, Len(s)) = "\""
    /\ ~Contains(SubSeq(s, 2, Len(s) - 1), "\"")

Unquote(s) == SubSeq(s, 2, Len(s) - 1)

\* the members "k":"v" of a JSON object, each cut at its first colon
jsonPairs(members) == [i \in DOMAIN members |-> SplitN2(members[i], ":")]

jsonObject(pairs) ==
    IF \A i \in DOMAIN pairs :
           /\ Len(pairs[i]) = 2
           /\ IsJSONString(pairs[i][1])
           /\ IsJSONString(pairs[i][2])
    THEN [ok |-> TRUE,
          map |-> [k \in {Unquote(pairs[i][1]) : i \in DOMAIN pairs} |->
                      Unquote(pairs[CHOOSE i \in DOMAIN pairs :
                                        /\ Unquote(pairs[i][1]) = k
                                        /\ \A j \in DOMAIN pairs :
                                               Unquote(pairs[j][1]) = k => j <= i][2])]]
    ELSE [ok |-> FALSE, map |-> EmptyMap]

\* json.Unmarshal into a map[string]string, for objects of unescaped string
\* members without insignificant white space
jsonUnmarshal(secret) ==
    IF ~(Len(secret) >= 2 /\ Head(secret) = "{" /\ CharAt(secret, Len(secret)) = "}")
    THEN [ok |-> FALSE, map |-> EmptyMap]
    ELSE IF Len(secret) = 2 THEN [ok |-> TRUE, map |-> EmptyMap]
    ELSE jsonObject(jsonPairs(Split(SubSeq(secret, 2, Len(secret) - 1), ",")))

\* a lookup without the ok test: a missing field reads as ""
subkeySecretZero(js, subKey) ==
    IF ~js.ok THEN [ok |-> FALSE, val |-> ""]
    ELSE [ok |-> TRUE, val |-> MapGet(js.map, subKey)]

\* the field subKey of the unmarshalled secret js
subkeySecret(js, subKey) ==
    IF ~js.ok THEN [ok |-> FALSE, val |-> ""]
    ELSE IF subKey \in DOMAIN js.map THEN [ok |-> TRUE, val |-> js.map[subKey]]
    ELSE [ok |-> FALSE, val |-> ""]

\* the secrets-manager branch, secret being the loaded secret
secretItem(secret, subKey) ==
    IF ~secret.ok THEN [ok |-> FALSE, val |-> ""]
    ELSE IF subKey = "" THEN secret
    ELSE subkeySecret(jsonUnmarshal(secret.val), subKey)

\* the secrets-manager branch, post being <<name, subKey>>
secretOf(post) == secretItem(loadStringValueFromSecretsManager(post[1]), post[2])

\* the else branch: ssm is the value checked for the parameter-store prefix
parameterItem(ssm, value) ==
    IF ssm.ok THEN loadStringValueFromParameterStore(ssm.s)
    ELSE [ok |-> TRUE, val |-> value]

\* sm is the value checked for the secrets-manager prefix
configItem(sm, value) ==
    IF sm.ok THEN secretOf(checkPostfixAndStrip(sm.s))
    ELSE parameterItem(checkPrefixAndStrip(parameterStoreStringRe, sm.s), value)

processConfigItem(key, value) ==
    configItem(checkPrefixAndStrip(secretsManagerStringRe, value), value)

\* the request processConfigItem sends for a value found without the
\* secrets-manager prefix: requestParameter(name), or none
parameterRequests(ssm) ==
    IF ssm.ok THEN <<[backend |-> "parameterStore", id |-> ssm.s]>> ELSE <<>>

\* the requests processConfigItem sends to the backends: requestSecret(name)
\* or requestParameter(name), or none
itemRequests(sm) ==
    IF sm.ok
    THEN <<[backend |-> "secretsManager", id |-> checkPostfixAndStrip(sm.s)[1]]>>
    ELSE parameterRequests(checkPrefixAndStrip(parameterStoreStringRe, sm.s))

backendRequests(value) ==
    itemRequests(checkPrefixAndStrip(secretsManagerStringRe, value))

\* ValuePreProcessor.PreProcessValue of the pre-processor p
PreProcessValue(p, key, value) ==
    IF p = "aws" THEN processConfigItem(key, value)
    ELSE [ok |-> TRUE, val |-> value]

-----------------------------------------------------------------------------
(* The config store.                                                       *)

\* the iteration orders of "range in": every enumeration of the keys
Orders(in) ==
    {o \in [1..Cardinality(DOMAIN in) -> DOMAIN in] :
        \A i, j \in DOMAIN o : i # j => o[i] # o[j]}

\* a write that adds the value to the one the key already holds
mergeWriteAppend(st, k, pre) ==
    IF ~pre.ok THEN [st EXCEPT !.panicked = TRUE]
    ELSE [st EXCEPT !.map = MapSet(st.map, k,
                                   IF k \in DOMAIN st.map
                                   THEN st.map[k] \o " " \o pre.val ELSE pre.val),
                    !.written = st.written \cup {k}]

\* the store after the entry k whose pre-processed value is pre
mergeWrite(st, k, pre) ==
    IF ~pre.ok THEN [st EXCEPT !.panicked = TRUE]
    ELSE [st EXCEPT !.map = MapSet(st.map, k, pre.val),
                    !.written = st.written \cup {k}]

\* the body of the loop of mergeConfig for the entry (k, v)
mergeEntry(st, p, k, v) ==
    mergeWrite(st, k, IF p # "nil" THEN PreProcessValue(p, k, v)
                      ELSE [ok |-> TRUE, val |-> v])

\* a loop that recovers from the failure of an entry and goes on
RECURSIVE mergeLoopRecover(_, _, _, _)
mergeLoopRecover(st, p, in, order) ==
    IF order = <<>> THEN [st EXCEPT !.panicked = FALSE]
    ELSE mergeLoopRecover(mergeEntry([st EXCEPT !.panicked = FALSE], p,
                                     Head(order), in[Head(order)]),
                          p, in, Tail(order))

\* the loop of mergeConfig: a panic of the pre-processor ends it
RECURSIVE mergeLoop(_, _, _, _)
mergeLoop(st, p, in, order) ==
    IF order = <<>> \/ st.panicked THEN st
    ELSE mergeLoop(mergeEntry(st, p, Head(order), in[Head(order)]),
                   p, in, Tail(order))

\* a merge that replaces the whole map by the new entries
mergeConfigReplace(m, p, in, order) ==
    mergeLoop([map |-> EmptyMap, panicked |-> FALSE, written |-> {}], p, in, order)

\* Builder.mergeConfig with the map ranged over in the given order: the
\* store afterwards, whether the call panicked, and the keys it wrote
mergeConfig(m, p, in, order) ==
    mergeLoop([map |-> m, panicked |-> FALSE, written |-> {}], p, in, order)

-----------------------------------------------------------------------------
(* Package strconv and time.ParseDuration, as convertAndSetValue calls     *)
(* them.  Each returns the value the Go function returns next to its       *)
(* error: convertAndSetValue discards the error and stores the value.      *)

Digits == "0123456789"

\* the value of each decimal digit
DigitOf ==
    [c \in {CharAt(Digits, i) : i \in 1..Len(Digits)} |->
        (CHOOSE i \in 1..Len(Digits) : CharAt(Digits, i) = c) - 1]

IsDigit(c) == c \in DOMAIN DigitOf

DigitVal(c) == DigitOf[c]

\* the largest integer of the model checker: the accumulator of a number
\* wider than 16 bits saturates here, above every number the inputs denote
WideMax == 2^30 + (2^30 - 1)

\* 1<<bitSize - 1, the maxVal of ParseUint (bitSize 0 is IntSize)
MaxUintOf(bitSize) ==
    IF bitSize \in {8, 16} THEN 2^bitSize - 1 ELSE WideMax

\* 1<<(bitSize-1) - 1, cutoff - 1 of ParseInt
MaxIntOf(bitSize) ==
    IF bitSize \in {8, 16} THEN 2^(bitSize - 1) - 1 ELSE WideMax

\* the loop of ParseUint in base 10: n is the number read so far
RECURSIVE ParseUintLoop(_, _, _)
ParseUintLoop(s, n, maxVal) ==
    IF s = "" THEN [val |-> n, err |-> "nil"]
    ELSE IF ~IsDigit(Head(s)) THEN [val |-> 0, err |-> "syntax"]
    ELSE IF n > (maxVal - DigitVal(Head(s))) \div 10
         THEN [val |-> maxVal, err |-> "range"]
    ELSE ParseUintLoop(Tail(s), n * 10 + DigitVal(Head(s)), maxVal)

\* strconv.ParseUint(s, 10, bitSize)
ParseUint(s, bitSize) ==
    IF s = "" THEN [val |-> 0, err |-> "syntax"]
    ELSE ParseUintLoop(s, 0, MaxUintOf(bitSize))

\* strconv.ParseInt(s, 10, bitSize)
ParseInt(s, bitSize) ==
    IF s = "" THEN [val |-> 0, err |-> "syntax"]
    ELSE LET neg  == Head(s) = "-"
             body == IF Head(s) \in {"+", "-"} THEN Tail(s) ELSE s
             un   == ParseUint(body, bitSize)
         IN  IF un.err = "syntax" THEN [val |-> 0, err |-> "syntax"]
             ELSE IF ~neg /\ un.val > MaxIntOf(bitSize)
                  THEN [val |-> MaxIntOf(bitSize), err |-> "range"]
             ELSE IF neg /\ un.val - 1 > MaxIntOf(bitSize)
                  THEN [val |-> -MaxIntOf(bitSize) - 1, err |-> "range"]
             ELSE [val |-> IF neg THEN -un.val ELSE un.val, err |-> "nil"]

\* strconv.ParseBool(s)
ParseBool(s) ==
    IF s \in {"1", "t", "T", "TRUE", "true", "True"}
    THEN [val |-> TRUE, err |-> "nil"]
    ELSE IF s \in {"0", "f", "F", "FALSE", "false", "False"}
    THEN [val |-> FALSE, err |-> "nil"]
    ELSE [val |-> FALSE, err |-> "syntax"]

\* a floating-point value: inf is 0 for a finite value mant * 10^exp
\* (the float nearest to it), 1 for +Inf and -1 for -Inf
FloatZero == [inf |-> 0, mant |-> 0, exp |-> 0]

\* the largest power of ten a finite value of the width reaches, and the
\* largest leading digit at that power (float32: 3.4e38, float64: 1.7e308)
Float32MaxExp == 38
Float64MaxExp == 308
FloatMaxExp(bitSize) == IF bitSize = 32 THEN Float32MaxExp ELSE Float64MaxExp
FloatMaxLead(bitSize) == IF bitSize = 32 THEN 3 ELSE 1

\* the number of digits of n >= 1
RECURSIVE NumDigits(_)
NumDigits(n) == IF n < 10 THEN 1 ELSE 1 + NumDigits(n \div 10)

\* the leading digit of n >= 1
RECURSIVE LeadDigit(_)
LeadDigit(n) == IF n < 10 THEN n ELSE LeadDigit(n \div 10)

\* strconv.ParseFloat(s, bitSize) on [+-]digits[e[+-]digits]
ParseFloat(s, bitSize) ==
    LET neg   == s # "" /\ Head(s) = "-"
        body  == IF s # "" /\ Head(s) \in {"+", "-"} THEN Tail(s) ELSE s
        parts == SplitN2(body, "e")
        mant  == ParseUint(parts[1], 0)
        ex    == IF Len(parts) = 2 THEN ParseInt(parts[2], 0)
                 ELSE [val |-> 0, err |-> "nil"]
        top   == ex.val + NumDigits(mant.val) - 1
        over  == \/ top > FloatMaxExp(bitSize)
                 \/ /\ top = FloatMaxExp(bitSize)
                    /\ LeadDigit(mant.val) > FloatMaxLead(bitSize)
    IN  IF mant.err # "nil" \/ ex.err # "nil"
        THEN [val |-> FloatZero, err |-> "syntax"]
        ELSE IF mant.val = 0 THEN [val |-> FloatZero, err |-> "nil"]
        ELSE IF over
        THEN [val |-> [inf |-> IF neg THEN -1 ELSE 1, mant |-> 0, exp |-> 0],
              err |-> "range"]
        ELSE [val |-> [inf |-> 0,
                       mant |-> IF neg THEN -mant.val ELSE mant.val,
                       exp |-> ex.val],
              err |-> "nil"]

\* a time.Duration: secs seconds and nanos nanoseconds
DurationZero == [secs |-> 0, nanos |-> 0]

NanosPerSecond == 1000000000

\* the unit map of time.ParseDuration, as <<seconds, nanoseconds>>
DurationUnits == {"ns", "us", "ms", "s", "m", "h"}

UnitOf(u) ==
    CASE u = "ns" -> <<0, 1>>
      [] u = "us" -> <<0, 1000>>
      [] u = "ms" -> <<0, 1000000>>
      [] u = "s"  -> <<1, 0>>
      [] u = "m"  -> <<60, 0>>
      [] u = "h"  -> <<3600, 0>>

\* the longest prefix of s made of digits
RECURSIVE LeadingDigits(_)
LeadingDigits(s) ==
    IF s # "" /\ IsDigit(Head(s)) THEN Head(s) \o LeadingDigits(Tail(s)) ELSE ""

\* the longest prefix of s free of digits
RECURSIVE LeadingUnit(_)
LeadingUnit(s) ==
    IF s # "" /\ ~IsDigit(Head(s)) THEN Head(s) \o LeadingUnit(Tail(s)) ELSE ""

\* the loop of time.ParseDuration over the groups digits+unit of s
RECURSIVE ParseDurationLoop(_, _)
ParseDurationLoop(s, d) ==
    IF s = "" THEN [val |-> d, err |-> "nil"]
    ELSE LET ds   == LeadingDigits(s)
             rest == SubSeq(s, Len(ds) + 1, Len(s))
             u    == LeadingUnit(rest)
             n    == ParseUint(ds, 0).val
             \* n units, as whole seconds and the nanoseconds left over
             per  == IF UnitOf(u)[2] = 0 THEN 1 ELSE NanosPerSecond \div UnitOf(u)[2]
             whole == IF UnitOf(u)[2] = 0 THEN n * UnitOf(u)[1] ELSE n \div per
             part == IF UnitOf(u)[2] = 0 THEN 0 ELSE (n % per) * UnitOf(u)[2]
             tot  == d.nanos + part
         IN  IF ds = "" \/ u \notin DurationUnits
             THEN [val |-> DurationZero, err |-> "invalid"]
             ELSE ParseDurationLoop(
                      SubSeq(rest, Len(u) + 1, Len(rest)),
                      [secs  |-> d.secs + whole + tot \div NanosPerSecond,
                       nanos |-> tot % NanosPerSecond])

\* time.ParseDuration(s) on [+-](digits unit)+ and on "0"
ParseDuration(s) ==
    LET neg  == s # "" /\ Head(s) = "-"
        body == IF s # "" /\ Head(s) \in {"+", "-"} THEN Tail(s) ELSE s
        r    == ParseDurationLoop(body, DurationZero)
    IN  IF body = "0" THEN [val |-> DurationZero, err |-> "nil"]
        ELSE IF body = "" \/ r.err # "nil"
        THEN [val |-> DurationZero, err |-> "invalid"]
        ELSE [val |-> IF neg THEN [secs |-> -r.val.secs, nanos |-> -r.val.nanos]
                      ELSE r.val,
              err |-> "nil"]

-----------------------------------------------------------------------------
(* Types and values of the target record.  A type is [kind, elem, fields]: *)
(* elem holds the element type of a slice, fields the fields of a struct.  *)
(* A field is [name, tag, type], tag being <<>> when the field has no      *)
(* `config` tag and <<t>> when its tag is t.  A struct value is the tuple  *)
(* of its fields' values; a slice value is [nil, elems].                   *)

Prim(kind) == [kind |-> kind, elem |-> <<>>, fields |-> <<>>]
SliceOf(t) == [kind |-> "slice", elem |-> <<t>>, fields |-> <<>>]
StructOf(fs) == [kind |-> "struct", elem |-> <<>>, fields |-> fs]
Field(name, tag, type) == [name |-> name, tag |-> tag, type |-> type]
NoTag == <<>>
Tag(t) == <<t>>

SignedKinds == {"int", "int8", "int16", "int32", "int64"}
UnsignedKinds == {"uint", "uint8", "uint16", "uint32", "uint64"}
FloatKinds == {"float32", "float64"}
\* the kinds convertAndSetValue has a case for
SupportedKinds ==
    {"string", "duration", "bool"} \cup SignedKinds \cup UnsignedKinds \cup FloatKinds
\* kinds that fall to the default case of convertAndSetValue
UnsupportedKinds ==
    {"ptr", "map", "interface", "chan", "func", "complex128"}

\* the bitSize argument convertAndSetValue passes for the kind
BitSizeOf(kind) ==
    CASE kind \in {"int", "uint"} -> 0
      [] kind \in {"int8", "uint8"} -> 8
      [] kind \in {"int16", "uint16"} -> 16
      [] kind \in {"int32", "uint32", "float32"} -> 32
      [] kind \in {"int64", "uint64", "float64"} -> 64

NilSlice == [nil |-> TRUE, elems |-> <<>>]

\* the zero value of a type
RECURSIVE Zero(_)
Zero(t) ==
    CASE t.kind = "string" -> ""
      [] t.kind = "bool" -> FALSE
      [] t.kind = "duration" -> DurationZero
      [] t.kind \in FloatKinds -> FloatZero
      [] t.kind \in SignedKinds \cup UnsignedKinds -> 0
      [] t.kind = "slice" -> NilSlice
      [] t.kind = "struct" -> [i \in 1..Len(t.fields) |-> Zero(t.fields[i].type)]
      [] OTHER -> "nil"

-----------------------------------------------------------------------------
(* The type converter.                                                     *)

\* convertAndSetValue on a settable of type t and the string s: the value
\* the settable holds afterwards (the discarded error kept beside it), or a
\* panic for a kind without a case
convertAndSetValue(t, s) ==
    CASE t.kind = "string" ->
           [panicked |-> FALSE, val |-> s, err |-> "nil"]
      [] t.kind = "duration" ->
           [panicked |-> FALSE, val |-> ParseDuration(s).val,
            err |-> ParseDuration(s).err]
      [] t.kind \in SignedKinds ->
           [panicked |-> FALSE, val |-> ParseInt(s, BitSizeOf(t.kind)).val,
            err |-> ParseInt(s, BitSizeOf(t.kind)).err]
      [] t.kind \in UnsignedKinds ->
           [panicked |-> FALSE, val |-> ParseUint(s, BitSizeOf(t.kind)).val,
            err |-> ParseUint(s, BitSizeOf(t.kind)).err]
      [] t.kind = "bool" ->
           [panicked |-> FALSE, val |-> ParseBool(s).val, err |-> ParseBool(s).err]
      [] t.kind \in FloatKinds ->
           [panicked |-> FALSE, val |-> ParseFloat(s, BitSizeOf(t.kind)).val,
            err |-> ParseFloat(s, BitSizeOf(t.kind)).err]
      [] OTHER ->
           [panicked |-> TRUE, val |-> Zero(t), err |-> "nil"]

-----------------------------------------------------------------------------
(* Sequence decomposition.                                                 *)

\* the filtering loop of stringToSlice: the trimmed non-empty entries
RECURSIVE filterTokens(_)
filterTokens(split) ==
    IF split = <<>> THEN <<>>
    ELSE LET v == TrimSpace(Head(split))
         IN  (IF v # "" THEN <<v>> ELSE <<>>) \o filterTokens(Tail(split))

\* stringToSlice(s, delim); delim = "" panics
stringToSlice(s, delim) ==
    IF delim = "" THEN [panicked |-> TRUE, nil |-> TRUE, elems |-> <<>>]
    ELSE IF TrimSpace(s) = "" THEN [panicked |-> FALSE, nil |-> TRUE, elems |-> <<>>]
    ELSE [panicked |-> FALSE, nil |-> FALSE,
          elems |-> filterTokens(Split(TrimSpace(s), delim))]

\* the loop of convertAndSetSlice: sliceVal after appending the converted
\* values, up to the first element whose conversion panics
RECURSIVE convertAndSetSliceLoop(_, _, _)
convertAndSetSliceLoop(elemType, sliceVal, values) ==
    IF values = <<>> THEN [panicked |-> FALSE, val |-> sliceVal]
    ELSE LET c == convertAndSetValue(elemType, Head(values))
         IN  IF c.panicked THEN [panicked |-> TRUE, val |-> sliceVal]
             ELSE convertAndSetSliceLoop(
                      elemType,
                      [nil |-> FALSE, elems |-> Append(sliceVal.elems, c.val)],
                      Tail(values))

\* convertAndSetSlice on a slice of type t holding sliceVal
convertAndSetSlice(t, sliceVal, values) ==
    convertAndSetSliceLoop(t.elem[1], sliceVal, values)

-----------------------------------------------------------------------------
(* The key deriver and the struct population engine.                       *)

structTagIgnoreField == "-"

\* a key in the letter case of the field
getKeyExact(f, prefix) ==
    LET exists == f.tag # <<>>
        tag    == IF exists THEN TrimSpace(f.tag[1]) ELSE ""
        name   == IF exists /\ tag # "" THEN tag ELSE f.name
    IN  IF exists /\ tag = structTagIgnoreField
        THEN [nil |-> TRUE, key |-> ""]
        ELSE [nil |-> FALSE, key |-> prefix \o name]

\* a key that is always the field's name
getKeyName(f, prefix) ==
    IF f.tag # <<>> /\ TrimSpace(f.tag[1]) = structTagIgnoreField
    THEN [nil |-> TRUE, key |-> ""]
    ELSE [nil |-> FALSE, key |-> ToLower(prefix \o f.name)]

\* a key from the tag as written, without strings.TrimSpace
getKeyUntrimmed(f, prefix) ==
    LET exists == f.tag # <<>>
        tag    == IF exists THEN f.tag[1] ELSE ""
        name   == IF exists /\ tag # "" THEN tag ELSE f.name
    IN  IF exists /\ tag = structTagIgnoreField
        THEN [nil |-> TRUE, key |-> ""]
        ELSE [nil |-> FALSE, key |-> ToLower(prefix \o name)]

\* getKey(t, prefix): no key (nil) for an ignored field
getKey(f, prefix) ==
    LET exists == f.tag # <<>>
        tag    == IF exists THEN TrimSpace(f.tag[1]) ELSE ""
        name   == IF exists /\ tag # "" THEN tag ELSE f.name
    IN  IF exists /\ tag = structTagIgnoreField
        THEN [nil |-> TRUE, key |-> ""]
        ELSE [nil |-> FALSE, key |-> ToLower(prefix \o name)]

\* the loop of populateStructRecursively from field i on; st is
\* [val, panicked, reads], b the Builder, path the position of the struct
RECURSIVE populateFrom(_, _, _, _, _, _)

\* the slice case: convertAndSetSlice(fieldPtr, stringToSlice(value, delim))
populateSlice(f, old, values) ==
    IF values.panicked THEN [val |-> old, panicked |-> TRUE, reads |-> <<>>]
    ELSE [val      |-> convertAndSetSlice(f.type, old, values.elems).val,
          panicked |-> convertAndSetSlice(f.type, old, values.elems).panicked,
          reads    |-> <<>>]

\* the default case: convertAndSetValue(fieldPtr, value)
populateValue(f, old, set) ==
    [val |-> IF set.panicked THEN old ELSE set.val,
     panicked |-> set.panicked, reads |-> <<>>]

\* a switch that hands a nested struct its field name as the prefix
populateFieldByName(f, old, key, value, b, path) ==
    CASE f.type.kind = "struct" ->
           populateFrom(f.type, [val |-> old, panicked |-> FALSE, reads |-> <<>>],
                        1, ToLower(f.name) \o b.structDelim, b, path)
      [] f.type.kind = "slice" ->
           populateSlice(f, old, stringToSlice(value, b.sliceDelim))
      [] OTHER ->
           populateValue(f, old, convertAndSetValue(f.type, value))

\* the switch on the field's kind: the field's value afterwards, whether
\* the call panicked, and the store lookups made below the field
populateField(f, old, key, value, b, path) ==
    CASE f.type.kind = "struct" ->
           populateFrom(f.type, [val |-> old, panicked |-> FALSE, reads |-> <<>>],
                        1, key \o b.structDelim, b, path)
      [] f.type.kind = "slice" ->
           populateSlice(f, old, stringToSlice(value, b.sliceDelim))
      [] OTHER ->
           populateValue(f, old, convertAndSetValue(f.type, value))

\* the struct after field i, looked up under key, has been handled with result r
fieldDone(st, i, key, r, path) ==
    [val      |-> [st.val EXCEPT ![i] = r.val],
     panicked |-> r.panicked,
     reads    |-> st.reads \o <<[path |-> path \o <<i>>, key |-> key]>> \o r.reads]

\* one iteration of the loop, for field f = t.fields[i] whose key is key
populateKeyed(f, st, i, key, b, path) ==
    fieldDone(st, i, key,
              populateField(f, st.val[i], key, MapGet(b.configMap, key), b,
                            path \o <<i>>),
              path)

populateFrom(t, st, i, prefix, b, path) ==
    IF i > Len(t.fields) \/ st.panicked THEN st
    ELSE IF getKey(t.fields[i], prefix).nil
         THEN populateFrom(t, st, i + 1, prefix, b, path)
         ELSE populateFrom(t,
                           populateKeyed(t.fields[i], st, i,
                                         getKey(t.fields[i], prefix).key, b, path),
                           i + 1, prefix, b, path)

\* Builder.populateStructRecursively(structPtr, prefix) on the struct of
\* type t that holds val
populateStructRecursively(t, val, prefix, b) ==
    populateFrom(t, [val |-> val, panicked |-> FALSE, reads |-> <<>>],
                 1, prefix, b, <<>>)

-----------------------------------------------------------------------------
(* The inputs of the model: source files, environments, target records.    *)

\* the number of To calls a caller makes on one struct
MaxToCalls == 2

\* the README's environment
ReadmeEnv == <<"DATABASE_URL=db://x", "FEATURE_FLAG=true", "PORT=8080">>

\* an environment that names secrets, one of them unknown to the backend
SecretEnv == <<"Foo=sm://my_secret#user", "BAD=sm://missing", "HIDDEN__NAME=h">>

\* a file with a line that names a parameter of the parameter store
DevConfig == <<"FOO=a", "NOEQ", "TAGS= a  b   c ", "=v", "CHILD__NAME=ssm://p">>

\* a file with a line that names a field, empty, of a JSON secret
CaseConfig == <<"foo=b", "TAGS=   ", "K=", "PARENT__LABEL=x=y", "EMPTY=sm://blank#user", "foo=c">>

\* the files From can open, by name
Files ==
    [n \in {"dev.config", "case.config"} |->
        IF n = "dev.config" THEN DevConfig ELSE CaseConfig]

\* the file names From is called with; "missing" cannot be opened
FileNames == DOMAIN Files \cup {"missing"}

\* the values of os.Environ()
Environs == {ReadmeEnv, SecretEnv}

\* the README's MyConfig
MyConfig ==
    StructOf(<<Field("DatabaseUrl", Tag("DATABASE_URL"), Prim("string")),
               Field("FeatureFlag", Tag("FEATURE_FLAG"), Prim("bool")),
               Field("Port", NoTag, Prim("int"))>>)

\* the same record without tags
PlainConfig ==
    StructOf(<<Field("DatabaseUrl", NoTag, Prim("string")),
               Field("FeatureFlag", NoTag, Prim("bool")),
               Field("Port", NoTag, Prim("int"))>>)

\* a record with renamed, ignored, nested and sequence fields
AppConfig ==
    StructOf(<<Field("Foo", NoTag, Prim("string")),
               Field("Alias", Tag("fOO"), Prim("string")),
               Field("Tags", NoTag, SliceOf(Prim("string"))),
               Field("Sizes", Tag("TAGS"), SliceOf(Prim("int8"))),
               Field("Child", NoTag,
                     StructOf(<<Field("Name", NoTag, Prim("string"))>>)),
               Field("Kid", Tag("PARENT"),
                     StructOf(<<Field("Name", Tag(" label "), Prim("string"))>>)),
               Field("Bad", Tag(" - "), Prim("string")),
               Field("Hidden", Tag("-"),
                     StructOf(<<Field("Name", NoTag, Prim("string")),
                                Field("Ref", NoTag, Prim("ptr"))>>)),
               Field("Blank", Tag("  "), Prim("uint8")),
               Field("Wait", Tag("PORT"), Prim("duration")),
               Field("Ratio", Tag("PORT"), Prim("float32"))>>)

\* a record whose second field, keyed "tags", is of the type bad
BadConfig(bad) ==
    StructOf(<<Field("First", Tag("FOO"), Prim("string")),
               Field("Tags", NoTag, bad),
               Field("Last", Tag("FOO"), Prim("string"))>>)

EmptyStruct == StructOf(<<>>)

\* the types of the target records, by name
GoodTypeNames == {"MyConfig", "PlainConfig", "AppConfig"}
BadTypeNames == {"[]struct"} \cup UnsupportedKinds
TypeNames == GoodTypeNames \cup BadTypeNames

TypeOf(n) ==
    CASE n = "MyConfig" -> MyConfig
      [] n = "PlainConfig" -> PlainConfig
      [] n = "AppConfig" -> AppConfig
      [] n = "[]struct" -> BadConfig(SliceOf(EmptyStruct))
      [] OTHER -> BadConfig(Prim(n))

-----------------------------------------------------------------------------
(* The state machine: one Builder and the struct its caller binds.         *)

structDelimDefault == "__"
sliceDelimDefault == " "

NoTarget == [type |-> "none", val |-> <<>>]

NoCall ==
    [op |-> "new", in |-> <<>>, panicked |-> FALSE, written |-> {},
     reads |-> <<>>, repeat |-> FALSE, before |-> <<>>]

\* no function called on its own
NoFunc == [fn |-> "none", key |-> "", in |-> <<>>, done |-> FALSE,
           panicked |-> FALSE, out |-> <<>>, requests |-> <<>>]

\* no settable outside a struct
NoSettable == [kind |-> "none", s |-> "", val |-> "nil", err |-> "nil",
               panicked |-> FALSE, set |-> FALSE]

\* newBuilder(), and a caller that holds no struct yet
Init ==
    /\ settable = NoSettable
    /\ call = NoFunc
    /\ configMap = EmptyMap
    /\ structDelim = structDelimDefault
    /\ sliceDelim = sliceDelimDefault
    /\ valuePreProcessor = "nil"
    /\ target = NoTarget
    /\ toCalls = 0
    /\ lastCall = NoCall
    /\ lastEntry = EmptyMap

\* the value of the last line of ss that contributes an entry for key k
LastLineFor(ss, k) ==
    LET hits == {i \in 1..Len(ss) :
                    /\ Contains(ss[i], "=")
                    /\ ToLower(SplitN2(ss[i], "=")[1]) = k
                    /\ SplitN2(ss[i], "=")[2] # ""}
        i == CHOOSE i \in hits : \A j \in hits : j <= i
    IN  SplitN2(ss[i], "=")[2]

\* what the entry (k, raw) is to leave in the store under pre-processor p
Effective(p, k, raw) == IF p = "nil" THEN raw ELSE PreProcessValue(p, k, raw).val

\* c.mergeConfig(stringsToMap(ss)), the call being op.  The caller merges
\* while it holds no populated struct.
Merge(op, ss) ==
    /\ target = NoTarget
    /\ \E in \in {stringsToMap(ss)} :
       \E order \in Orders(in) :
       \E r \in {mergeConfig(configMap, valuePreProcessor, in, order)} :
           /\ configMap' = r.map
           /\ lastEntry' =
                  [k \in DOMAIN lastEntry \cup r.written |->
                      IF k \in r.written
                      THEN Effective(valuePreProcessor, k, LastLineFor(ss, k))
                      ELSE lastEntry[k]]
           /\ lastCall' =
                  [op |-> op, in |-> ss, panicked |-> r.panicked,
                   written |-> r.written, reads |-> <<>>,
                   repeat |-> /\ lastCall.op \in {"From", "FromEnv"}
                              /\ lastCall.in = ss
                              /\ ~lastCall.panicked /\ ~r.panicked,
                   before |-> <<>>]
    /\ UNCHANGED <<structDelim, sliceDelim, valuePreProcessor, target, toCalls,
                   settable, call>>

\* Builder.From(file)
From ==
    \E file \in FileNames :
        IF file \notin DOMAIN Files
        THEN /\ target = NoTarget
             /\ lastCall' = [NoCall EXCEPT !.op = "From", !.panicked = TRUE]
             /\ UNCHANGED <<configMap, structDelim, sliceDelim, valuePreProcessor,
                            target, toCalls, lastEntry, settable, call>>
        ELSE Merge("From", Files[file])

\* Builder.FromEnv()
FromEnv == \E env \in Environs : Merge("FromEnv", env)

\* Builder.WithValuePreProcessor(p)
WithValuePreProcessor ==
    \E p \in {"nil", "aws"} :
        /\ target = NoTarget
        /\ p # valuePreProcessor
        /\ valuePreProcessor' = p
        /\ lastCall' = [NoCall EXCEPT !.op = "WithValuePreProcessor"]
        /\ UNCHANGED <<configMap, structDelim, sliceDelim, target, toCalls,
                       lastEntry, settable, call>>

Builder ==
    [configMap |-> configMap, structDelim |-> structDelim, sliceDelim |-> sliceDelim]

\* a To whose lookups leave an entry in the map for every key they ask for
ToTypeStoring(n) ==
    \E fresh \in BOOLEAN :
        /\ fresh \/ (target.type = n /\ toCalls < MaxToCalls)
        /\ \E start \in {IF fresh THEN Zero(TypeOf(n)) ELSE target.val} :
           \E r \in {populateStructRecursively(TypeOf(n), start, "", Builder)} :
               /\ target' = [type |-> n, val |-> r.val]
               /\ lastCall' = [NoCall EXCEPT !.op = "To", !.panicked = r.panicked,
                                             !.reads = r.reads, !.before = start]
               /\ configMap' =
                      [k \in DOMAIN configMap \cup
                                {r.reads[i].key : i \in DOMAIN r.reads} |->
                          MapGet(configMap, k)]
        /\ toCalls' = IF fresh THEN 1 ELSE toCalls + 1
        /\ UNCHANGED <<structDelim, sliceDelim, valuePreProcessor,
                       lastEntry, settable, call>>

\* Builder.To(target) on a struct of type n: a newly declared one, or the
\* one the caller passed to the previous To
ToType(n) ==
    \E fresh \in BOOLEAN :
        /\ fresh \/ (target.type = n /\ toCalls < MaxToCalls)
        /\ \E start \in {IF fresh THEN Zero(TypeOf(n)) ELSE target.val} :
           \E r \in {populateStructRecursively(TypeOf(n), start, "", Builder)} :
               /\ target' = [type |-> n, val |-> r.val]
               /\ lastCall' = [NoCall EXCEPT !.op = "To", !.panicked = r.panicked,
                                             !.reads = r.reads, !.before = start]
        /\ toCalls' = IF fresh THEN 1 ELSE toCalls + 1
        /\ UNCHANGED <<configMap, structDelim, sliceDelim, valuePreProcessor,
                   lastEntry, settable, call>>

To == \E n \in TypeNames : ToType(n)

\* the caller lets go of the struct it populated
Release ==
    /\ target # NoTarget
    /\ target' = NoTarget
    /\ toCalls' = 0
    /\ lastCall' = [NoCall EXCEPT !.op = "Release"]
    /\ UNCHANGED <<configMap, structDelim, sliceDelim, valuePreProcessor,
                   lastEntry, settable, call>>

Next == From \/ FromEnv \/ WithValuePreProcessor \/ To \/ Release

Spec == Init /\ [][Next]_vars

-----------------------------------------------------------------------------
(* The type converter on its own: one settable of each kind, and one       *)
(* source string, per behaviour.                                           *)

\* the source strings: decimal numbers around the limits of the 8 and 16
\* bit kinds, floats around the largest float32 and float64, boolean and
\* duration literals, and text that is none of these
ConvStrings ==
    {"", "0", "1", "-1", "+7", "007", "127", "128", "-128", "-129", "255",
     "256", "300", "32767", "32768", "-32769", "65535", "65536", "abc", "12a",
     "-", "true", "T", "false", "maybe", "1e2", "3e38", "4e38", "-4e38",
     "1e39", "1e308", "2e308", "-1e309", "1e", "1h", "90m", "1h30m", "-5s",
     "1500ms", "5", "1x", "h"}

ConvKinds == SupportedKinds \cup UnsupportedKinds

\* a caller declares a settable of some kind and picks the string
InitConv ==
    /\ configMap = EmptyMap
    /\ structDelim = structDelimDefault
    /\ sliceDelim = sliceDelimDefault
    /\ valuePreProcessor = "nil"
    /\ target = NoTarget
    /\ toCalls = 0
    /\ lastCall = NoCall
    /\ lastEntry = EmptyMap
    /\ call = NoFunc
    /\ \E kind \in ConvKinds, s \in ConvStrings :
           settable = [kind |-> kind, s |-> s, val |-> Zero(Prim(kind)),
                       err |-> "nil", panicked |-> FALSE, set |-> FALSE]

\* convertAndSetValue(settable, s)
ConvertAndSetValue ==
    /\ ~settable.set
    /\ \E r \in {convertAndSetValue(Prim(settable.kind), settable.s)} :
           settable' = [settable EXCEPT
                           !.val = IF r.panicked THEN @ ELSE r.val,
                           !.err = r.err, !.panicked = r.panicked, !.set = TRUE]
    /\ UNCHANGED <<configMap, structDelim, sliceDelim, valuePreProcessor,
                   target, toCalls, lastCall, lastEntry, call>>

NextConv == ConvertAndSetValue

SpecConv == InitConv /\ [][NextConv]_vars

-----------------------------------------------------------------------------
(* Properties of the config store.                                         *)

\* C1: after any sequence of merge calls, the store holds exactly the keys
\* some merge wrote, and under each key the value of the last input entry
\* written for it: the pre-processor's output on that entry when a
\* pre-processor was configured for that merge, the raw value otherwise.
\* A key a later merge did not write keeps the value of the earlier one.
C1_LastEntryWins ==
    /\ DOMAIN configMap = DOMAIN lastEntry
    /\ \A k \in DOMAIN configMap : configMap[k] = lastEntry[k]

\* a later merge (case.config, no pre-processor) overrode "foo" and left
\* "child__name" of an earlier one (dev.config) in place, and a
\* pre-processed entry of a third merge is in the store
C1_Witness ==
    /\ lastCall.op \in {"From", "FromEnv"}
    /\ "foo" \in lastCall.written
    /\ "child__name" \in DOMAIN configMap \ lastCall.written
    /\ configMap["child__name"] = "pv"
    /\ "hidden__name" \in DOMAIN configMap
    /\ configMap["foo"] = "alice"

\* what the source ss says of the key written FOO, foo or Foo
FooIn(ss) ==
    CASE ss = DevConfig -> "a"                        \* FOO=a
      [] ss = CaseConfig -> "c"                       \* foo=b, then foo=c
      [] ss = SecretEnv -> "sm://my_secret#user"      \* Foo=sm://my_secret#user

\* C2: the keys FOO, foo and Foo of distinct merges are one stored entry,
\* "foo", which holds the value of the last of these merges; and the field
\* Foo, like the field renamed fOO, reads that entry.
C2_CaseInsensitive ==
    /\ \A k \in DOMAIN configMap : ToLower(k) = "foo" => k = "foo"
    /\ (lastCall.op \in {"From", "FromEnv"} /\ "foo" \in lastCall.written)
           => configMap["foo"] =
                 IF valuePreProcessor = "aws" /\ lastCall.in = SecretEnv
                 THEN "alice" ELSE FooIn(lastCall.in)
    /\ (lastCall.op = "To" /\ target.type = "AppConfig")
           => /\ target.val[1] = MapGet(configMap, "foo")
              /\ target.val[2] = MapGet(configMap, "foo")

\* dev.config (FOO), case.config (foo) and the environment (Foo) have all
\* been merged, the environment last of the three, and a record read it
C2_Witness ==
    /\ lastCall.op = "To" /\ target.type = "AppConfig"
    /\ {"child__name", "parent__label", "foo"} \subseteq DOMAIN configMap
    /\ configMap["foo"] = "sm://my_secret#user"
    /\ target.val[1] = "sm://my_secret#user"
    /\ target.val[2] = "sm://my_secret#user"

-----------------------------------------------------------------------------
(* Properties of the struct population engine.  The fields of a record are *)
(* named by their paths: <<5, 1>> is the first field of the fifth field.   *)

\* the type of the field at path
RECURSIVE TypeAt(_, _)
TypeAt(t, path) ==
    IF path = <<>> THEN t ELSE TypeAt(t.fields[Head(path)].type, Tail(path))

\* the value of the field at path
RECURSIVE ValAt(_, _)
ValAt(val, path) == IF path = <<>> THEN val ELSE ValAt(val[Head(path)], Tail(path))

\* the field carries the ignore sentinel
Ignored(f) == f.tag # <<>> /\ TrimSpace(f.tag[1]) = "-"

\* the rename tag when present and non-empty, else the declared name
EffectiveLocalName(f) ==
    IF f.tag # <<>> /\ TrimSpace(f.tag[1]) # "" THEN TrimSpace(f.tag[1]) ELSE f.name

\* the paths of the fields of t, at every depth, that are not ignored and
\* lie below no ignored field
RECURSIVE FieldPaths(_)
FieldPaths(t) ==
    UNION {IF Ignored(t.fields[i]) THEN {}
           ELSE {<<i>>} \cup {<<i>> \o p : p \in FieldPaths(t.fields[i].type)} :
           i \in 1..Len(t.fields)}

\* lowercase(prefix + effectiveLocalName) of the field at path, the prefix
\* of a nested record being its own key followed by "__"
RECURSIVE DerivedKey(_, _, _)
DerivedKey(t, path, prefix) ==
    IF Len(path) = 1
    THEN ToLower(prefix \o EffectiveLocalName(t.fields[Head(path)]))
    ELSE DerivedKey(t.fields[Head(path)].type, Tail(path),
                    ToLower(prefix \o EffectiveLocalName(t.fields[Head(path)])) \o "__")

\* C3: after Builder.To has returned, every scalar field and every sequence
\* field that is not ignored and whose derived key is absent from the store
\* is at the zero value of its type.
C3_UnsetIsZero ==
    (lastCall.op = "To" /\ ~lastCall.panicked) =>
        \A p \in FieldPaths(TypeOf(target.type)) :
            (/\ TypeAt(TypeOf(target.type), p).kind # "struct"
             /\ DerivedKey(TypeOf(target.type), p, "") \notin DOMAIN configMap)
            => ValAt(target.val, p) = Zero(TypeAt(TypeOf(target.type), p))

\* a second To on one record, from a store that holds "foo" but neither
\* "tags" nor "port" nor "child__name": the sequence, the integer, the
\* duration and the nested text are zero
C3_Witness ==
    /\ lastCall.op = "To" /\ ~lastCall.panicked
    /\ target.type = "AppConfig" /\ toCalls = 2
    /\ "foo" \in DOMAIN configMap
    /\ DOMAIN configMap \cap {"tags", "port", "blank", "child__name"} = {}
    /\ target.val[1] # ""
    /\ target.val[3] = NilSlice /\ target.val[9] = 0
    /\ target.val[10] = DurationZero /\ target.val[5] = <<"">>

-----------------------------------------------------------------------------
(* Properties of the type converter.                                       *)

\* C4: for every supported kind other than plain text, a source string that
\* fails to convert (strconv or time.ParseDuration answers with an error)
\* leaves the settable at the zero value of the kind, and nothing is raised.
C4_FailureLeavesZero ==
    (/\ settable.set
     /\ settable.kind \in SupportedKinds \ {"string"}
     /\ settable.err # "nil")
    => /\ ~settable.panicked
       /\ settable.val = Zero(Prim(settable.kind))

\* the number 300 does not fit an int8: the settable holds 127
C4_Witness ==
    /\ settable.set /\ settable.kind = "int8" /\ settable.s = "300"
    /\ settable.err = "range" /\ settable.val = 127

\* C5: whenever Builder.To walks a record with a field of an unsupported
\* kind (here the second field, keyed "tags"), it panics when it reaches
\* that field, whatever the store holds: the last lookup is the one of
\* that field and the field after it is as it was before the call.
C5_UnsupportedPanics ==
    (lastCall.op = "To" /\ target.type \in BadTypeNames) =>
        /\ lastCall.panicked
        /\ lastCall.reads = <<[path |-> <<1>>, key |-> "foo"],
                              [path |-> <<2>>, key |-> "tags"]>>
        /\ target.val[3] = lastCall.before[3]

\* To has returned from a record with a sequence of records, keyed "tags",
\* and has populated the field after it; the store holds no "tags"
C5_Witness ==
    /\ lastCall.op = "To" /\ target.type = "[]struct" /\ ~lastCall.panicked
    /\ "foo" \in DOMAIN configMap /\ "tags" \notin DOMAIN configMap
    /\ target.val[2] = NilSlice
    /\ target.val[3] = configMap["foo"]

\* the store {database_url: "db://x", feature_flag: "true", port: "8080"}
ReadmeStore ==
    [k \in {"database_url", "feature_flag", "port"} |->
        CASE k = "database_url" -> "db://x"
          [] k = "feature_flag" -> "true"
          [] k = "port" -> "8080"]

\* C6 as claimed: from that store, Builder.To on the record
\* {DatabaseUrl string; FeatureFlag bool; Port int}, its fields as declared
\* without rename tags, yields {"db://x", true, 8080}.
C6_PlainRecordBound ==
    (/\ lastCall.op = "To" /\ target.type = "PlainConfig"
     /\ configMap = ReadmeStore)
    => target.val = <<"db://x", TRUE, 8080>>

\* C6 as the code has it: from that store, Builder.To yields
\* {"db://x", true, 8080} on the record whose first two fields are renamed
\* DATABASE_URL and FEATURE_FLAG (the README's MyConfig); on the record
\* without tags the keys derived are "databaseurl" and "featureflag", which
\* the store lacks, and To yields {"", false, 8080}.
C6_TaggedRecordBound ==
    (lastCall.op = "To" /\ configMap = ReadmeStore) =>
        /\ target.type = "MyConfig" => target.val = <<"db://x", TRUE, 8080>>
        /\ target.type = "PlainConfig" => target.val = <<"", FALSE, 8080>>

\* the README's record has been bound from that store
C6_Witness ==
    /\ lastCall.op = "To" /\ target.type = "MyConfig" /\ ~lastCall.panicked
    /\ configMap = ReadmeStore
    /\ lastCall.before = <<"", FALSE, 0>>
    /\ target.val = <<"db://x", TRUE, 8080>>

\* the paths of the ignored fields of t at every depth (not below one another)
RECURSIVE IgnoredPaths(_)
IgnoredPaths(t) ==
    UNION {IF Ignored(t.fields[i]) THEN {<<i>>}
           ELSE {<<i>> \o p : p \in IgnoredPaths(t.fields[i].type)} :
           i \in 1..Len(t.fields)}

\* path q is p or lies below p
Below(p, q) == Len(p) <= Len(q) /\ SubSeq(q, 1, Len(p)) = p

\* C7: a field whose tag trims to "-" is never read from the store by
\* Builder.To: no lookup is made for it or for a field below it, and the
\* field with its whole subtree is at its zero value afterwards, whatever
\* the store holds.
C7_IgnoredUntouched ==
    lastCall.op = "To" =>
        \A p \in IgnoredPaths(TypeOf(target.type)) :
            /\ \A i \in DOMAIN lastCall.reads : ~Below(p, lastCall.reads[i].path)
            /\ ValAt(target.val, p) = Zero(TypeAt(TypeOf(target.type), p))

\* To has bound a record with the ignored fields Bad (tag " - ") and Hidden
\* (tag "-", a record with a field Name) from a store that holds "bad" and
\* "hidden__name"
C7_Witness ==
    /\ lastCall.op = "To" /\ target.type = "AppConfig" /\ ~lastCall.panicked
    /\ {"bad", "hidden__name", "foo"} \subseteq DOMAIN configMap
    /\ target.val[1] # ""
    /\ target.val[7] = "" /\ target.val[8] = <<"", "nil">>

\* C8: for the sequence field Tags, whose key "tags" is in the store,
\* Builder.To sets the field to a new sequence of exactly the tokens of the
\* value: " a  b   c " gives ["a","b","c"], and "   " gives the nil
\* sequence.
C8_ExactlyTheTokens ==
    (/\ lastCall.op = "To" /\ ~lastCall.panicked
     /\ target.type = "AppConfig"
     /\ "tags" \in DOMAIN configMap)
    => /\ configMap["tags"] = " a  b   c "
            => target.val[3] = [nil |-> FALSE, elems |-> <<"a", "b", "c">>]
       /\ configMap["tags"] = "   " => target.val[3] = NilSlice

\* the second To on one record, the store holding tags = " a  b   c ": the
\* field held ["a","b","c"] before the call and holds them twice after it
C8_Witness ==
    /\ lastCall.op = "To" /\ ~lastCall.panicked
    /\ target.type = "AppConfig" /\ toCalls = 2
    /\ "tags" \in DOMAIN configMap /\ configMap["tags"] = " a  b   c "
    /\ lastCall.before[3] = [nil |-> FALSE, elems |-> <<"a", "b", "c">>]
    /\ target.val[3] = [nil |-> FALSE, elems |-> <<"a", "b", "c", "a", "b", "c">>]

\* C9: every lookup Builder.To makes is for a field that is not ignored,
\* under the key lowercase(prefix + effectiveLocalName), the prefix of a
\* nested record being the key of its parent followed by "__"; a To that
\* returns has looked up every such field of the record, at every depth.
\* Name inside Child is looked up as "child__name", and Name, renamed
\* " label ", inside Kid, renamed PARENT, as "parent__label".
C9_DerivedKeys ==
    lastCall.op = "To" =>
        /\ \A i \in DOMAIN lastCall.reads :
               /\ lastCall.reads[i].path \in FieldPaths(TypeOf(target.type))
               /\ lastCall.reads[i].key =
                      DerivedKey(TypeOf(target.type), lastCall.reads[i].path, "")
        /\ ~lastCall.panicked =>
               {lastCall.reads[i].path : i \in DOMAIN lastCall.reads}
                   = FieldPaths(TypeOf(target.type))
        /\ target.type = "AppConfig" =>
               /\ \E i \in DOMAIN lastCall.reads :
                      lastCall.reads[i] = [path |-> <<5, 1>>, key |-> "child__name"]
               /\ \E i \in DOMAIN lastCall.reads :
                      lastCall.reads[i] = [path |-> <<6, 1>>, key |-> "parent__label"]

\* the nested fields have been bound from "child__name" and "parent__label"
C9_Witness ==
    /\ lastCall.op = "To" /\ target.type = "AppConfig" /\ ~lastCall.panicked
    /\ {"child__name", "parent__label"} \subseteq DOMAIN configMap
    /\ target.val[5] = <<"pv">>
    /\ target.val[6] = <<"x=y">>

-----------------------------------------------------------------------------
(* Merge idempotence.                                                      *)

\* C10: a merge that returns, of the input the call before it merged and
\* returned from (the same pre-processor, if any, configured for both),
\* leaves the store as it was after the first of the two.
C10_MergeIdempotent == [][lastCall'.repeat => configMap' = configMap]_vars

\* dev.config has been merged twice in a row through the pre-processor,
\* which resolved ssm://p both times
C10_Witness ==
    /\ lastCall.repeat /\ lastCall.op = "From" /\ lastCall.in = DevConfig
    /\ valuePreProcessor = "aws"
    /\ lastCall.written = {"foo", "tags", "child__name"}
    /\ configMap["child__name"] = "pv"

-----------------------------------------------------------------------------
(* The reference pre-processor on its own: one key/value pair per          *)
(* behaviour.                                                              *)

\* what precedes the name in a value: the two prefixes, and text that holds
\* them further in or resembles them
ValueHeads ==
    {"", "sm://", "ssm://", "x sm://", "x ssm://", "asm://", "assm://",
     "SM://", "sm:/", "sm://sm://", "ssm://sm://"}

ValueNames ==
    {"", "bar", "foo_bar", "small_foo_bar", "ssmall_foo_bar", "my_secret",
     "plain", "blank", "mixed", "missing", "p"}

ValueTails == {"", "#user", "#pass", "#nokey", "#user#pass", "#"}

PreValues == {h \o n \o tl : h \in ValueHeads, n \in ValueNames, tl \in ValueTails}

\* a caller picks the pair
InitPre ==
    /\ configMap = EmptyMap
    /\ structDelim = structDelimDefault
    /\ sliceDelim = sliceDelimDefault
    /\ valuePreProcessor = "aws"
    /\ target = NoTarget
    /\ toCalls = 0
    /\ lastCall = NoCall
    /\ lastEntry = EmptyMap
    /\ settable = NoSettable
    /\ \E key \in {"FOO", "FOO_1"}, value \in PreValues :
           call = [NoFunc EXCEPT !.fn = "PreProcessValue", !.key = key, !.in = value]

\* p.PreProcessValue(key, value)
PreProcess ==
    /\ call.fn = "PreProcessValue" /\ ~call.done
    /\ \E r \in {PreProcessValue(valuePreProcessor, call.key, call.in)} :
           call' = [call EXCEPT !.done = TRUE, !.panicked = ~r.ok,
                                !.out = IF r.ok THEN r.val ELSE <<>>,
                                !.requests = backendRequests(call.in)]
    /\ UNCHANGED <<configMap, structDelim, sliceDelim, valuePreProcessor,
                   target, toCalls, lastCall, lastEntry, settable>>

NextPre == PreProcess

SpecPre == InitPre /\ [][NextPre]_vars

\* s begins with the characters of p
StartsWith(s, p) ==
    Len(s) >= Len(p) /\ \A i \in 1..Len(p) : CharAt(s, i) = CharAt(p, i)

\* s from its character i on
From_(s, i) == SubSeq(s, i, Len(s))

\* C11: a value that starts with neither "sm://" nor "ssm://" is returned
\* unchanged and no backend is asked, whatever it holds further in; a value
\* "sm://" + rest asks the secrets manager alone, once, for rest up to its
\* first "#", and "ssm://" + rest asks the parameter store alone, once, for
\* rest; without a "#" the backend's string is the value returned.  So
\* "sm://small_foo_bar" asks for the secret small_foo_bar and
\* "ssm://ssmall_foo_bar" for the parameter ssmall_foo_bar.
C11_AnchoredPrefixes ==
    call.done =>
        /\ (~StartsWith(call.in, "sm://") /\ ~StartsWith(call.in, "ssm://"))
               => /\ ~call.panicked /\ call.out = call.in
                  /\ call.requests = <<>>
        /\ StartsWith(call.in, "sm://")
               => /\ Len(call.requests) = 1
                  /\ call.requests[1].backend = "secretsManager"
                  /\ StartsWith(From_(call.in, 6), call.requests[1].id)
                  /\ ~Contains(call.requests[1].id, "#")
                  /\ From_(call.in, 6 + Len(call.requests[1].id)) = ""
                        \/ CharAt(call.in, 6 + Len(call.requests[1].id)) = "#"
                  /\ (~Contains(call.in, "#") /\ ~call.panicked)
                        => call.out = SecretStrings[From_(call.in, 6)]
        /\ StartsWith(call.in, "ssm://")
               => /\ call.requests =
                        <<[backend |-> "parameterStore", id |-> From_(call.in, 7)]>>
                  /\ ~call.panicked => call.out = ParameterValues[From_(call.in, 7)]
        /\ call.in = "sm://small_foo_bar"
               => /\ call.requests =
                        <<[backend |-> "secretsManager", id |-> "small_foo_bar"]>>
                  /\ call.out = "baz"
        /\ call.in = "ssm://ssmall_foo_bar"
               => /\ call.requests =
                        <<[backend |-> "parameterStore", id |-> "ssmall_foo_bar"]>>
                  /\ call.out = "baz"

\* the parameter ssmall_foo_bar has been fetched from the parameter store
C11_Witness ==
    /\ call.done /\ ~call.panicked
    /\ call.in = "ssm://ssmall_foo_bar"
    /\ call.requests = <<[backend |-> "parameterStore", id |-> "ssmall_foo_bar"]>>
    /\ call.out = "baz"

\* the secrets of the backend whose payload is a JSON object of string
\* fields, with these fields
SecretFields ==
    [n \in {"my_secret", "blank"} |->
        IF n = "my_secret"
        THEN [k \in {"user", "pass"} |-> IF k = "user" THEN "alice" ELSE "x"]
        ELSE [k \in {"user"} |-> ""]]

\* C12: for a value "sm://<name>#<subkey>" the secret asked for is <name>;
\* when its payload is a JSON object of string fields that has <subkey>
\* the result is the value of that field, and when the payload is no such
\* object or lacks <subkey> the call panics; for "sm://<name>" the result
\* is the whole payload.
C12_SubKeySelection ==
    call.done =>
        \A n \in ValueNames :
            /\ \A k \in {"user", "pass", "nokey"} :
                   call.in = "sm://" \o n \o "#" \o k =>
                       /\ call.requests = <<[backend |-> "secretsManager", id |-> n]>>
                       /\ IF n \in DOMAIN SecretFields /\ k \in DOMAIN SecretFields[n]
                          THEN ~call.panicked /\ call.out = SecretFields[n][k]
                          ELSE call.panicked
            /\ call.in = "sm://" \o n =>
                   /\ call.requests = <<[backend |-> "secretsManager", id |-> n]>>
                   /\ IF n \in DOMAIN SecretStrings
                      THEN ~call.panicked /\ call.out = SecretStrings[n]
                      ELSE call.panicked

\* the field user of the secret my_secret has been selected
C12_Witness ==
    /\ call.done /\ ~call.panicked
    /\ call.in = "sm://my_secret#user"
    /\ call.requests = <<[backend |-> "secretsManager", id |-> "my_secret"]>>
    /\ call.out = "alice"

-----------------------------------------------------------------------------
(* The store invariant.                                                    *)

\* C13 as claimed: in every reachable state, with or without a
\* pre-processor, the store holds no empty key and no empty value, and
\* every key is lower-case.
C13_NoEmptyEntries ==
    \A k \in DOMAIN configMap :
        k # "" /\ configMap[k] # "" /\ k = ToLower(k)

\* C13 as the code has it: in every reachable state no key of the store is
\* empty and every key is lower-case; a merge made while no pre-processor
\* is configured brings no empty value into the store.  (With a
\* pre-processor configured the store takes its output as it is, the empty
\* string included.)
C13_KeysAndRawValues ==
    /\ [](\A k \in DOMAIN configMap : k # "" /\ k = ToLower(k))
    /\ [][valuePreProcessor = "nil" =>
             \A k \in DOMAIN configMap' :
                 configMap'[k] = "" => (k \in DOMAIN configMap /\ configMap[k] = "")]_vars

\* case.config has been merged through the pre-processor, which resolved
\* sm://blank#user to the empty string; the lines "K=" and the upper-case
\* keys left no entry of their own
C13_Witness ==
    /\ lastCall.op = "From" /\ lastCall.in = CaseConfig /\ ~lastCall.panicked
    /\ valuePreProcessor = "aws"
    /\ DOMAIN configMap \cap {"k", "K", "TAGS", "EMPTY", ""} = {}
    /\ {"empty", "tags"} \subseteq DOMAIN configMap
    /\ configMap["empty"] = ""

-----------------------------------------------------------------------------
(* stringsToMap on its own: every sequence of up to MaxLines raw lines.   *)

MaxLines == 3

\* raw lines: upper- and lower-case spellings of one key, a value holding
\* "=", an empty key, an empty value, a bare "=", no "=", a key with a
\* leading blank, the empty line
RawLines == {"A=1", "a=2", "a=x=y", "=v", "K=", "=", "NOEQ", " b=1", ""}

InitLines ==
    /\ configMap = EmptyMap
    /\ structDelim = structDelimDefault
    /\ sliceDelim = sliceDelimDefault
    /\ valuePreProcessor = "nil"
    /\ target = NoTarget
    /\ toCalls = 0
    /\ lastCall = NoCall
    /\ lastEntry = EmptyMap
    /\ settable = NoSettable
    /\ \E n \in 0..MaxLines : \E ss \in [1..n -> RawLines] :
           call = [NoFunc EXCEPT !.fn = "stringsToMap", !.in = ss]

\* stringsToMap(ss); the function has no failing path
StringsToMap ==
    /\ call.fn = "stringsToMap" /\ ~call.done
    /\ call' = [call EXCEPT !.done = TRUE, !.panicked = FALSE,
                            !.out = stringsToMap(call.in)]
    /\ UNCHANGED <<configMap, structDelim, sliceDelim, valuePreProcessor,
                   target, toCalls, lastCall, lastEntry, settable>>

NextLines == StringsToMap

SpecLines == InitLines /\ [][NextLines]_vars

\* the position of the first "=" of s, 0 when s holds none
FirstEq(s) ==
    LeastOr0({i \in 1..Len(s) : CharAt(s, i) = "="})

\* the line has a "=" with text on both sides of the first one
Contributes(s) == FirstEq(s) > 1 /\ FirstEq(s) < Len(s)

\* C14: stringsToMap returns, without an error, exactly the mapping whose
\* keys are the lower-cased texts before the first "=" of the lines that
\* hold a "=" with text on both sides of the first one, each key mapped to
\* the text after the first "=" (further "=" included) of the last such
\* line with that key; every other line adds nothing.
C14_Normalizer ==
    (call.fn = "stringsToMap" /\ call.done) =>
        LET ss   == call.in
            hits == {i \in 1..Len(ss) : Contributes(ss[i])}
            keyAt(i) == ToLower(SubSeq(ss[i], 1, FirstEq(ss[i]) - 1))
            valAt(i) == SubSeq(ss[i], FirstEq(ss[i]) + 1, Len(ss[i]))
        IN  /\ ~call.panicked
            /\ DOMAIN call.out = {keyAt(i) : i \in hits}
            /\ \A i \in hits :
                   (\A j \in hits : (j > i) => keyAt(j) # keyAt(i))
                       => call.out[keyAt(i)] = valAt(i)

\* a key repeated in another case, the last line holding "=" in its value,
\* between them a line that is skipped
C14_Witness ==
    /\ call.fn = "stringsToMap" /\ call.done
    /\ call.in = <<"A=1", "K=", "a=x=y">>
    /\ DOMAIN call.out = {"a"}
    /\ call.out["a"] = "x=y"

-----------------------------------------------------------------------------
(* A pre-processor failure during a merge.                                 *)

\* the keys of the merged lines ss whose pre-processing fails under p
FailingKeys(p, ss) ==
    {k \in DOMAIN stringsToMap(ss) :
        p # "nil" /\ ~PreProcessValue(p, k, stringsToMap(ss)[k]).ok}

\* C15 as claimed: a merge call that ends in the pre-processor's failure
\* leaves the store as it was before the call.
C15_FailedMergeLeavesStore ==
    [][(lastCall'.op \in {"From", "FromEnv"} /\ lastCall'.panicked)
          => configMap' = configMap]_vars

\* C15 as the code has it: a merge call panics exactly when the
\* pre-processor fails on one of its entries (the failure is not recovered
\* per entry), and then it ends at the first failing entry of the map's
\* iteration order: the entries ranged over before it stay written with
\* their pre-processed values, no failing entry and not all entries are
\* written, and every other key of the store is as before the call.
C15_FailedMergeStopsAtFailure ==
    [][(lastCall'.op \in {"From", "FromEnv"} /\ lastCall'.in # <<>>) =>
          LET in    == stringsToMap(lastCall'.in)
              fails == FailingKeys(valuePreProcessor, lastCall'.in)
          IN  /\ lastCall'.panicked <=> (fails # {})
              /\ lastCall'.panicked =>
                    /\ lastCall'.written \cap fails = {}
                    /\ lastCall'.written \subseteq DOMAIN in
                    /\ lastCall'.written # DOMAIN in
                    /\ DOMAIN configMap' = DOMAIN configMap \cup lastCall'.written
                    /\ \A k \in lastCall'.written :
                          configMap'[k] =
                              PreProcessValue(valuePreProcessor, k, in[k]).val
                    /\ \A k \in DOMAIN configMap \ lastCall'.written :
                          configMap'[k] = configMap[k]]_vars

\* FromEnv has panicked on BAD=sm://missing after it had resolved and
\* stored Foo=sm://my_secret#user
C15_Witness ==
    /\ lastCall.op = "FromEnv" /\ lastCall.in = SecretEnv /\ lastCall.panicked
    /\ valuePreProcessor = "aws"
    /\ "foo" \in lastCall.written
    /\ "bad" \notin DOMAIN configMap
    /\ "foo" \in DOMAIN configMap /\ configMap["foo"] = "alice"

-----------------------------------------------------------------------------
(* What To leaves alone.                                                   *)

=============================================================================
